---- MODULE Spec2Model ----
(***************************************************************************)
(* Model of scripts/optimize-logo.py: a script that re-encodes             *)
(* public/logo.png as an RGBA PNG (optimize_png) and then writes four      *)
(* fixed-size copies of the result (create_smaller_sizes).                 *)
(*                                                                         *)
(* The filesystem is a function from paths to file contents.  A path is a  *)
(* pair <<directory, name>>.  A file content is a record: what Pillow can  *)
(* decode from it (width, height, colour mode, the pixels) and how its     *)
(* bytes were encoded.  The pixels are described by where they come from   *)
(* (src) and by the resamplings applied to them since (resampled); stamp   *)
(* is the time a tIME chunk records, 0 when the file has none.             *)
(***************************************************************************)
EXTENDS Integers, Sequences, FiniteSets, TLC

\* ---------------------------------------------------------------- bounds

\* The largest input width and height considered.
MaxDim == 1024
\* How many times the script is run (or a function is called) in a row.
MaxRuns == 2

\* ------------------------------------------------------------- the state

VARIABLES
    fs,          \* the filesystem: Paths -> file content
    pc,          \* where control is
    entry,       \* what was invoked: the script, or one function by a caller
    input_path,  \* the current call's input_path
    output_path, \* optimize_png's output_path
    output_dir,  \* create_smaller_sizes' output_dir
    quality,     \* optimize_png's quality
    img,         \* the local img
    original_size, \* optimize_png's local original_size
    idx,         \* the index in sizes of the loop's next iteration
    stdout,      \* the lines written to standard output by this run
    ret,         \* the value the last finished call returned
    exit_code,   \* the exit status; -1 while the process runs
    run,         \* the number of this run (or call)
    attempted,   \* history: the paths this run called save on, in order
    written,     \* history: the paths this run saved, in order
    fs0,         \* history: the filesystem when this run started
    history      \* history: how the earlier runs ended

vars == <<fs, pc, entry, input_path, output_path, output_dir, quality, img,
          original_size, idx, stdout, ret, exit_code, run, attempted, written,
          fs0, history>>

\* ------------------------------------------------------------ the values

Dirs == {"public", "dist"}
Names == {"logo.png", "logo-optimized.png", "logo-512.png", "logo-256.png",
          "logo-128.png", "logo-64.png", "favicon.ico"}
Paths == Dirs \X Names
NoPath == <<"", "">>

\* Widths and heights of input images: smaller than, equal to and larger than
\* the targets, so that square and non-square inputs both occur.
DimValues == {1, 512, MaxDim}
Modes == {"RGBA", "RGB", "P"}
\* Values of the quality argument, within its documented range 1..100.
QualityValues == {1, 85, 100}

NoParams == [format |-> "", optimize |-> FALSE, compress_level |-> 0]
Absent == [kind |-> "absent", w |-> 0, h |-> 0, mode |-> "", src |-> 0,
           resampled |-> << >>, enc |-> NoParams, stamp |-> 0]
\* A file that is no image, and the debris of a write that failed midway.
Junk == [Absent EXCEPT !.kind = "junk"]
\* A PNG as some other tool wrote it: default compression.
ForeignParams == [format |-> "PNG", optimize |-> FALSE, compress_level |-> 6]
NoImage == [w |-> 0, h |-> 0, mode |-> "", src |-> 0, resampled |-> << >>,
            complete |-> FALSE]

\* Python values a function returns.
None == [type |-> "NoneType", value |-> << >>]
PyInt(n) == [type |-> "int", value |-> <<n>>]

\* -------------------------------------------------- the library, as used

\* os.path.exists
os_path_exists(f, p) == f[p].kind # "absent"

\* os.path.join(output_dir, filename)
os_path_join(dir, filename) == <<dir, filename>>

Channels(mode) == CASE mode = "RGBA" -> 4
                    [] mode = "RGB" -> 3
                    [] OTHER -> 1

\* os.path.getsize: the byte length of a file's content.  The PNG encoder is
\* deterministic: the length depends on the pixels and on the encoder's
\* parameters alone.  The arithmetic stands for zlib's.
os_path_getsize(file) ==
    CASE file.kind = "png" /\ file.enc.optimize ->
            57 + (file.w * file.h * Channels(file.mode)) \div 2 + Len(file.resampled)
      [] file.kind = "png" ->
            57 + file.w * file.h * Channels(file.mode) + Len(file.resampled)
      [] OTHER -> 13

\* Image.open succeeds on a file whose header parses; it reads no pixels.
CanOpen(file) == file.kind \in {"png", "truncated"}
Image_open(file) ==
    [w |-> file.w, h |-> file.h, mode |-> file.mode, src |-> file.src,
     resampled |-> file.resampled, complete |-> file.kind = "png"]

\* Image.load, which convert, resize and save call first: the pixels of a
\* truncated file cannot be read.
CanLoad(im) == im.complete

\* Image.convert('RGBA'): same size, same pixel values, alpha added.
Image_convert(im, mode) == [im EXCEPT !.mode = mode]

\* A resize that keeps the aspect ratio, as Image.thumbnail does: the image is
\* fitted into the box, and fills it only when it is square.
Image_resize_keeping_aspect(im, width, height) ==
    IF im.w >= im.h
    THEN [im EXCEPT !.w = width, !.h = IF (im.h * width) \div im.w > 0
                                        THEN (im.h * width) \div im.w ELSE 1]
    ELSE [im EXCEPT !.h = height, !.w = IF (im.w * height) \div im.h > 0
                                         THEN (im.w * height) \div im.h ELSE 1]

\* Image.resize((width, height), Image.Resampling.LANCZOS): the result has
\* exactly the requested size and the image's own mode.  Pillow returns a copy
\* when the size is already the requested one, and resamples "1" and "P"
\* images with NEAREST whatever filter is asked for.
Image_resize(im, width, height) ==
    IF im.w = width /\ im.h = height
    THEN im
    ELSE [im EXCEPT !.w = width, !.h = height,
                     !.resampled = Append(@, <<IF im.mode = "P" THEN "NEAREST" ELSE "LANCZOS",
                                               im.w, im.h>>)]

\* Parameters that heed quality, as a lossy encoder's would.
save_params_with_quality(q) ==
    [format |-> "PNG", optimize |-> TRUE, compress_level |-> q \div 11]

\* The keyword arguments of both img.save calls: 'PNG', optimize=True,
\* compress_level=9.  optimize_png's quality is not among them.
save_params(q) == [format |-> "PNG", optimize |-> TRUE, compress_level |-> 9]

\* A save that stamps the file with the time of the run.
Image_save_stamped(im, params) ==
    [kind |-> "png", w |-> im.w, h |-> im.h, mode |-> im.mode, src |-> im.src,
     resampled |-> im.resampled, enc |-> params, stamp |-> run]

\* The file Image.save writes: the image as it is, encoded with the parameters.
\* Neither call passes pnginfo, so no chunk carries a time.
Image_save(im, params) ==
    [kind |-> "png", w |-> im.w, h |-> im.h, mode |-> im.mode, src |-> im.src,
     resampled |-> im.resampled, enc |-> params, stamp |-> 0]

\* What a save that raises leaves at its path: the file as it was (the path
\* could not be opened, or Pillow removed the file it had created), or the
\* debris of the write.
FailedSaveOutcomes(old) == {old, Junk}

\* ------------------------------------------------------------ the program

\* __main__'s fixed paths and the quality it passes.
input_file == <<"public", "logo.png">>
output_file == <<"public", "logo-optimized.png">>
main_output_dir == "public"
main_quality == 85

\* The table without its last row.
sizes_without_64 == << <<512, 512, "logo-512.png">>,
                       <<256, 256, "logo-256.png">>,
                       <<128, 128, "logo-128.png">> >>

\* create_smaller_sizes' table of targets.
sizes == << <<512, 512, "logo-512.png">>,
            <<256, 256, "logo-256.png">>,
            <<128, 128, "logo-128.png">>,
            <<64, 64, "logo-64.png">> >>

\* optimize_png without its conversion.
EnsureRGBA_skipped(im) == im

\* optimize_png that also fits the image into 512x512.
EnsureRGBA_fitted(im) ==
    LET rgba == IF im.mode # "RGBA" THEN Image_convert(im, "RGBA") ELSE im
    IN  [rgba EXCEPT !.w = IF @ > 512 THEN 512 ELSE @,
                     !.h = IF @ > 512 THEN 512 ELSE @]

\* optimize_png, lines 30-32: the image that is saved.
EnsureRGBA(im) == IF im.mode # "RGBA" THEN Image_convert(im, "RGBA") ELSE im

\* A save over the input.
optimize_save_path_in_place(inp, outp) == inp

\* The first argument of optimize_png's img.save.
optimize_save_path(inp, outp) == outp

\* A line of standard output.
Line(tag, a, b, c, path) == [tag |-> tag, a |-> a, b |-> b, c |-> c, path |-> path]

\* The format {x:.1f} of x = num / den, den > 0: the number of tenths, rounded
\* to the nearest, a tie to the even one.
FormatTenths(num, den) ==
    LET q == (num * 10) \div den
        r == (num * 10) % den
    IN  IF 2 * r > den \/ (2 * r = den /\ q % 2 = 1) THEN q + 1 ELSE q

\* Line 73 reporting the bytes, not the kilobytes.
variant_line_in_bytes(width, height, size, filename) ==
    Line("variant", width, height, size, <<"", filename>>)

\* Line 73: one line per variant written: its size, its kilobytes to one
\* decimal, its name.
variant_line(width, height, size, filename) ==
    Line("variant", width, height, FormatTenths(size, 1024), <<"", filename>>)

\* sys.exit(0) for the missing input.
exit_status_zero_when_missing(how) == CASE how = "exception" -> 1
                                        [] OTHER -> 0

\* The process's exit status: sys.exit(1) when the input is missing, 1 from the
\* interpreter for an exception nothing catches, 0 at the end of the script.
exit_status(how) == CASE how = "missing" -> 1
                      [] how = "exception" -> 1
                      [] OTHER -> 0

\* An exception swallowed by a handler around the call: the caller goes on.
raise_target_swallowed(e) == IF e = "main" THEN "main_finish" ELSE "returned"

\* Where control goes when a statement raises: neither function has a handler,
\* and neither has __main__, so a call made by the script ends the process and a
\* call made by anyone else hands the exception to the caller.
raise_target(e) == IF e = "main" THEN "exited" ELSE "raised"

\* ---------------------------------------------------------- initial states

\* An image file somebody else made.
SourceImages ==
    { [kind |-> k, w |-> w, h |-> h, mode |-> m, src |-> 1, resampled |-> << >>,
       enc |-> ForeignParams, stamp |-> 0] :
        k \in {"png", "truncated"}, w \in DimValues, h \in DimValues, m \in Modes }

\* What an earlier run of the script left at an output path.
StaleOutput ==
    [kind |-> "png", w |-> 64, h |-> 64, mode |-> "RGBA", src |-> 2,
     resampled |-> << >>, enc |-> save_params(main_quality), stamp |-> 0]

\* A file the script has no business with.
Favicon == [kind |-> "png", w |-> 1, h |-> 1, mode |-> "P", src |-> 3,
            resampled |-> << >>, enc |-> ForeignParams, stamp |-> 0]

\* A filesystem: the file at `inp` is `file`; the other logo files are all
\* stale outputs or all absent; public/favicon.ico is there.
MakeFs(inp, file, stale) ==
    [p \in Paths |->
        CASE p = inp -> file
          [] p = <<"public", "favicon.ico">> -> Favicon
          [] p[2] = "favicon.ico" -> Absent
          [] p[2] = "logo.png" -> Absent
          [] OTHER -> IF stale THEN StaleOutput ELSE Absent]

InitCommon ==
    /\ img = NoImage
    /\ original_size = 0
    /\ idx = 0
    /\ stdout = << >>
    /\ ret = None
    /\ exit_code = -1
    /\ run = 1
    /\ attempted = << >>
    /\ written = << >>
    /\ fs0 = fs
    /\ history = << >>

\* The script is started: public/logo.png is absent, no image, or an image.
Init ==
    /\ \E file \in SourceImages \cup {Absent, Junk}, stale \in BOOLEAN :
          fs = MakeFs(input_file, file, stale)
    /\ pc = "main"
    /\ entry = "main"
    /\ input_path = NoPath
    /\ output_path = NoPath
    /\ output_dir = ""
    /\ quality = 0
    /\ InitCommon

\* A caller invokes optimize_png(input_path, output_path, quality), or
\* create_smaller_sizes(input_path, output_dir), on some filesystem.
CallInputs == {input_file, output_file, <<"public", "logo-512.png">>}
CallOutputs == {output_file, input_file, <<"dist", "logo.png">>}

InitCall ==
    /\ \E file \in SourceImages \cup {Absent, Junk}, stale \in BOOLEAN,
          inp \in CallInputs :
          /\ fs = MakeFs(inp, file, stale)
          /\ input_path = inp
    /\ \/ /\ entry = "optimize_png"
          /\ pc = "optimize_open"
          /\ output_path \in CallOutputs
          /\ quality \in QualityValues
          /\ output_dir = ""
       \/ /\ entry = "create_smaller_sizes"
          /\ pc = "variants_open"
          /\ output_path = NoPath
          /\ quality = 0
          /\ output_dir \in Dirs
    /\ InitCommon

\* ------------------------------------------------------------- the actions

\* A statement raises: see raise_target.
Raise ==
    /\ pc' = raise_target(entry)
    /\ exit_code' = IF pc' = "exited" THEN exit_status("exception") ELSE exit_code
    /\ ret' = None

\* __main__, lines 76-85: the existence check, then the call of optimize_png.
MainStart ==
    /\ pc = "main"
    /\ IF ~os_path_exists(fs, input_file)
       THEN /\ stdout' = Append(stdout, Line("missing", 0, 0, 0, input_file))
            /\ exit_code' = exit_status("missing")
            /\ pc' = "exited"
            /\ UNCHANGED <<input_path, output_path, quality>>
       ELSE /\ input_path' = input_file
            /\ output_path' = output_file
            /\ quality' = main_quality
            /\ pc' = "optimize_open"
            /\ UNCHANGED <<stdout, exit_code>>
    /\ UNCHANGED <<fs, entry, output_dir, img, original_size, idx, ret, run,
                   attempted, written, fs0, history>>

\* optimize_png, lines 20-32: open the image, measure the file, report, and
\* convert to RGBA an image of another mode.
OptimizeOpen ==
    /\ pc = "optimize_open"
    /\ LET file == fs[input_path]
           opened == Image_open(file)
           out1 == Append(stdout, Line("read", 0, 0, 0, input_path))
           out2 == out1 \o << Line("original_dimensions", opened.w, opened.h, 0, NoPath),
                              Line("original_size", FormatTenths(os_path_getsize(file), 1024), 0, 0, NoPath) >>
       IN  IF ~CanOpen(file)
           THEN /\ Raise
                /\ stdout' = out1
                /\ UNCHANGED <<img, original_size>>
           ELSE IF opened.mode # "RGBA" /\ ~CanLoad(opened)
           THEN /\ Raise
                /\ stdout' = out2
                /\ img' = opened
                /\ original_size' = os_path_getsize(file)
           ELSE /\ img' = EnsureRGBA(opened)
                /\ original_size' = os_path_getsize(file)
                /\ stdout' = out2
                /\ pc' = "optimize_save"
                /\ UNCHANGED <<exit_code, ret>>
    /\ UNCHANGED <<fs, entry, input_path, output_path, output_dir, quality, idx,
                   run, attempted, written, fs0, history>>

\* optimize_png, lines 35-51: save, measure the output, report, return its
\* size.  In __main__ (lines 85-88) the call of create_smaller_sizes follows.
OptimizeSave ==
    /\ pc = "optimize_save"
    /\ LET target == optimize_save_path(input_path, output_path)
           out1 == Append(stdout, Line("optimizing", quality, 0, 0, NoPath))
       IN  /\ \/ \* img.save loads the pixels before it opens the path
                 /\ ~CanLoad(img)
                 /\ Raise
                 /\ stdout' = out1
                 /\ UNCHANGED <<fs, attempted, written, input_path, output_dir>>
              \/ \* the save fails
                 /\ CanLoad(img)
                 /\ \E left \in FailedSaveOutcomes(fs[target]) :
                        fs' = [fs EXCEPT ![target] = left]
                 /\ Raise
                 /\ stdout' = out1
                 /\ attempted' = Append(attempted, target)
                 /\ UNCHANGED <<written, input_path, output_dir>>
              \/ \* the save succeeds
                 /\ CanLoad(img)
                 /\ LET saved == Image_save(img, save_params(quality))
                        new_size == os_path_getsize(saved)
                    IN  /\ fs' = [fs EXCEPT ![target] = saved]
                        /\ stdout' = out1 \o
                              << Line("done", 0, 0, 0, NoPath),
                                 Line("new_size", FormatTenths(new_size, 1024), 0, 0, NoPath),
                                 Line("reduction",
                                      FormatTenths((original_size - new_size) * 100, original_size),
                                      FormatTenths(original_size - new_size, 1024), 0, NoPath) >>
                        /\ ret' = PyInt(new_size)
                 /\ attempted' = Append(attempted, target)
                 /\ written' = Append(written, target)
                 /\ IF entry = "main"
                    THEN /\ pc' = "variants_open"
                         /\ input_path' = output_file
                         /\ output_dir' = main_output_dir
                    ELSE /\ pc' = "returned"
                         /\ UNCHANGED <<input_path, output_dir>>
                 /\ UNCHANGED exit_code
    /\ UNCHANGED <<entry, output_path, quality, img, original_size, idx, run,
                   fs0, history>>

\* create_smaller_sizes, lines 57-66: open the image, report.
VariantsOpen ==
    /\ pc = "variants_open"
    /\ IF ~CanOpen(fs[input_path])
       THEN /\ Raise
            /\ UNCHANGED <<img, idx, stdout>>
       ELSE /\ img' = Image_open(fs[input_path])
            /\ idx' = 1
            /\ stdout' = Append(stdout, Line("creating_sizes", 0, 0, 0, NoPath))
            /\ pc' = "variants_loop"
            /\ UNCHANGED <<exit_code, ret>>
    /\ UNCHANGED <<fs, entry, input_path, output_path, output_dir, quality,
                   original_size, run, attempted, written, fs0, history>>

\* create_smaller_sizes, lines 68-73: one iteration of the loop.
VariantStep ==
    /\ pc = "variants_loop"
    /\ idx <= Len(sizes)
    /\ LET width == sizes[idx][1]
           height == sizes[idx][2]
           filename == sizes[idx][3]
           target == os_path_join(output_dir, filename)
       IN  \/ \* img.resize loads the pixels
              /\ ~CanLoad(img)
              /\ Raise
              /\ UNCHANGED <<fs, idx, stdout, attempted, written>>
           \/ \* the save fails
              /\ CanLoad(img)
              /\ \E left \in FailedSaveOutcomes(fs[target]) :
                     fs' = [fs EXCEPT ![target] = left]
              /\ Raise
              /\ attempted' = Append(attempted, target)
              /\ UNCHANGED <<idx, stdout, written>>
           \/ \* the save succeeds
              /\ CanLoad(img)
              /\ LET resized == Image_resize(img, width, height)
                     saved == Image_save(resized, save_params(quality))
                 IN  /\ fs' = [fs EXCEPT ![target] = saved]
                     /\ stdout' = Append(stdout,
                            variant_line(width, height, os_path_getsize(saved), filename))
              /\ idx' = idx + 1
              /\ attempted' = Append(attempted, target)
              /\ written' = Append(written, target)
              /\ UNCHANGED <<pc, exit_code, ret>>
    /\ UNCHANGED <<entry, input_path, output_path, output_dir, quality, img,
                   original_size, run, fs0, history>>

\* create_smaller_sizes, after line 73: the loop is over and the function ends
\* without a return statement, so it returns None.
VariantsReturn ==
    /\ pc = "variants_loop"
    /\ idx > Len(sizes)
    /\ ret' = None
    /\ pc' = IF entry = "main" THEN "main_finish" ELSE "returned"
    /\ UNCHANGED <<fs, entry, input_path, output_path, output_dir, quality, img,
                   original_size, idx, stdout, exit_code, run, attempted,
                   written, fs0, history>>

\* __main__, lines 90-93: the closing messages; the script ends.
MainFinish ==
    /\ pc = "main_finish"
    /\ stdout' = stdout \o << Line("all_created", 0, 0, 0, <<main_output_dir, "">>),
                              Line("advice", 0, 0, 0, output_file) >>
    /\ exit_code' = exit_status("end")
    /\ pc' = "exited"
    /\ UNCHANGED <<fs, entry, input_path, output_path, output_dir, quality, img,
                   original_size, idx, ret, run, attempted, written, fs0, history>>

\* How a run ended, for the runs that follow.
Ended == [fs |-> fs,
          input |-> IF entry = "main" THEN fs0[input_file] ELSE fs0[input_path],
          ret |-> ret, pc |-> pc,
          exit_code |-> exit_code, quality |-> quality, stdout |-> stdout]

\* The script is run again on the filesystem the last run left.
Rerun ==
    /\ pc = "exited"
    /\ run < MaxRuns
    /\ history' = Append(history, Ended)
    /\ run' = run + 1
    /\ pc' = "main"
    /\ input_path' = NoPath
    /\ output_path' = NoPath
    /\ output_dir' = ""
    /\ quality' = 0
    /\ img' = NoImage
    /\ original_size' = 0
    /\ idx' = 0
    /\ stdout' = << >>
    /\ ret' = None
    /\ exit_code' = -1
    /\ attempted' = << >>
    /\ written' = << >>
    /\ fs0' = fs
    /\ UNCHANGED <<fs, entry>>

\* The caller calls the same function again, with the same paths and any
\* quality, on the filesystem the last call left.
CallAgain ==
    /\ pc \in {"returned", "raised"}
    /\ run < MaxRuns
    /\ history' = Append(history, Ended)
    /\ run' = run + 1
    /\ IF entry = "optimize_png"
       THEN /\ pc' = "optimize_open"
            /\ quality' \in QualityValues
       ELSE /\ pc' = "variants_open"
            /\ UNCHANGED quality
    /\ img' = NoImage
    /\ original_size' = 0
    /\ idx' = 0
    /\ stdout' = << >>
    /\ ret' = None
    /\ attempted' = << >>
    /\ written' = << >>
    /\ fs0' = fs
    /\ UNCHANGED <<fs, entry, input_path, output_path, output_dir, exit_code>>

Next ==
    \/ MainStart
    \/ OptimizeOpen
    \/ OptimizeSave
    \/ VariantsOpen
    \/ VariantStep
    \/ VariantsReturn
    \/ MainFinish
    \/ Rerun

Spec == Init /\ [][Next]_vars

NextCall ==
    \/ OptimizeOpen
    \/ OptimizeSave
    \/ VariantsOpen
    \/ VariantStep
    \/ VariantsReturn
    \/ CallAgain

SpecCall == InitCall /\ [][NextCall]_vars

\* The script's runs and the callers' calls together.
InitAll == Init \/ InitCall

NextAll ==
    \/ MainStart
    \/ OptimizeOpen
    \/ OptimizeSave
    \/ VariantsOpen
    \/ VariantStep
    \/ VariantsReturn
    \/ MainFinish
    \/ Rerun
    \/ CallAgain

SpecAll == InitAll /\ [][NextAll]_vars

\* --------------------------------------------------------------- the claims

\* The five outputs of the script, in the order the claims give them.
WriteOrder == << <<"public", "logo-optimized.png">>, <<"public", "logo-512.png">>,
                 <<"public", "logo-256.png">>, <<"public", "logo-128.png">>,
                 <<"public", "logo-64.png">> >>
OutputPaths == { WriteOrder[k] : k \in 1..Len(WriteOrder) }
Range(seq) == { seq[k] : k \in 1..Len(seq) }
IsPrefix(a, b) == Len(a) <= Len(b) /\ a = SubSeq(b, 1, Len(a))
\* A file a save completed.
Saved(file) == file.kind = "png" /\ file.enc = [format |-> "PNG", optimize |-> TRUE,
                                                compress_level |-> 9]

\* C1: when public/logo.png does not exist as the script starts, the script
\* does nothing but exit with a non-zero status: no save is ever called and
\* every file, the five outputs among them, stays as it was.
C1_MissingInputExitsWithoutWriting ==
    (entry = "main" /\ ~os_path_exists(fs0, input_file)) =>
        /\ pc \in {"main", "exited"}
        /\ pc = "exited" => exit_code # 0 /\ exit_code # -1
        /\ attempted = << >>
        /\ \A p \in Paths : fs[p] = fs0[p]

\* C1's case: the input is missing, stale outputs exist, the script has exited.
C1_Witness ==
    /\ entry = "main"
    /\ ~os_path_exists(fs0, input_file)
    /\ os_path_exists(fs0, output_file)
    /\ pc = "exited"
    /\ exit_code = 1

\* C2: a run whose input exists and decodes and none of whose saves fails
\* exits with status zero; and whenever the script exits with status zero it
\* has saved all five outputs, which are there as complete files.  A run that
\* has not exited can take a step.
C2_SuccessWritesAllFive ==
    entry = "main" =>
        /\ (pc = "exited" /\ fs0[input_file].kind = "png" /\ attempted = written)
              => exit_code = 0
        /\ (pc = "exited" /\ exit_code = 0)
              => /\ written = WriteOrder
                 /\ \A p \in OutputPaths : Saved(fs[p])
        /\ pc # "exited" => ENABLED Next

\* C2's case: a run without failure has exited.
C2_Witness ==
    /\ entry = "main"
    /\ pc = "exited"
    /\ exit_code = 0
    /\ ~os_path_exists(fs0, <<"public", "logo-64.png">>)
    /\ fs0[input_file].w # fs0[input_file].h

\* The four variants as the claims give them: the name and the side of each.
VariantNames == <<"logo-512.png", "logo-256.png", "logo-128.png", "logo-64.png">>
VariantSides == <<512, 256, 128, 64>>
VariantPaths == [k \in 1..4 |-> <<output_dir, VariantNames[k]>>]

\* C3: a call of create_smaller_sizes never touches a path other than the four
\* logo-<side>.png of output_dir, and when it returns it has saved exactly these
\* four, in this order, each a complete file of side x side pixels, whatever
\* the width and height of the input.
C3_FourVariantsOfExactSize ==
    entry = "create_smaller_sizes" =>
        /\ \A p \in Paths \ Range(VariantPaths) : fs[p] = fs0[p]
        /\ pc = "returned" =>
              /\ written = VariantPaths
              /\ \A k \in 1..4 :
                    /\ Saved(fs[VariantPaths[k]])
                    /\ fs[VariantPaths[k]].w = VariantSides[k]
                    /\ fs[VariantPaths[k]].h = VariantSides[k]

\* C3's case: the call has returned for an input that is not square.
C3_Witness ==
    /\ entry = "create_smaller_sizes"
    /\ pc = "returned"
    /\ fs0[input_path].w > fs0[input_path].h
    /\ fs0[input_path].h = 1

\* The lines of standard output that report a variant.
VariantLines == LET IsVariant(l) == l.tag = "variant" IN SelectSeq(stdout, IsVariant)
Abs(x) == IF x < 0 THEN -x ELSE x

\* C4, as claimed: create_smaller_sizes returns the list of (width x height,
\* byte size), one entry per target size written, in the order of production.
C4_ReturnsTheList ==
    (entry = "create_smaller_sizes" /\ pc = "returned") =>
        /\ ret.type = "list"
        /\ Len(ret.value) = 4
        /\ \A k \in 1..4 :
              ret.value[k] = <<VariantSides[k], VariantSides[k],
                               os_path_getsize(fs[VariantPaths[k]])>>

\* C4, amended: create_smaller_sizes returns None; what it reports goes to
\* standard output: one line per target size written, in the order of
\* production, with the width, the height, the name, and the byte size of the
\* file in kilobytes rounded to one decimal.
C4_ReportsOnStdoutReturnsNone ==
    entry = "create_smaller_sizes" =>
        /\ Len(VariantLines) = Len(written)
        /\ \A k \in 1..Len(written) :
              /\ VariantLines[k].a = VariantSides[k]
              /\ VariantLines[k].b = VariantSides[k]
              /\ VariantLines[k].path[2] = written[k][2]
              /\ 2 * Abs(VariantLines[k].c * 1024 - 10 * os_path_getsize(fs[written[k]])) <= 1024
        /\ pc = "returned" => (ret = None /\ Len(written) = 4)

\* C4's case: the call has returned after writing four files.
C4_Witness ==
    /\ entry = "create_smaller_sizes"
    /\ pc = "returned"
    /\ Len(VariantLines) = 4
    /\ fs0[input_path].mode = "RGB"

\* C5, as claimed: optimize_png writes the file at output_path and no other,
\* and the input file is afterwards what it was before.
C5_InputNeverChanged ==
    (entry = "optimize_png" /\ pc = "returned") =>
        /\ \A p \in Paths \ {output_path} : fs[p] = fs0[p]
        /\ fs[input_path] = fs0[input_path]

\* C5, amended: optimize_png touches no path but output_path, which it has
\* saved when it returns; so the input file stays what it was whenever
\* output_path is not input_path.  Over the script's runs public/logo.png is
\* never touched: it is, at any time of any run, what it was when the first
\* run started.
C5_OnlyOutputPathWritten ==
    /\ entry = "optimize_png" =>
          /\ \A p \in Paths \ {output_path} : fs[p] = fs0[p]
          /\ output_path # input_path => fs[input_path] = fs0[input_path]
          /\ pc = "returned" => (written = <<output_path>> /\ Saved(fs[output_path]))
    /\ entry = "main" =>
          /\ fs[input_file] = fs0[input_file]
          /\ \A i \in 1..Len(history) : history[i].input = fs[input_file]
          /\ input_file \notin Range(written) \cup Range(attempted)

\* C5's case: optimize_png has returned, having replaced a file at an
\* output_path that is not its input_path.
C5_Witness ==
    /\ entry = "optimize_png"
    /\ pc = "returned"
    /\ output_path # input_path
    /\ os_path_exists(fs0, output_path)
    /\ fs[output_path] # fs0[output_path]
    /\ fs0[input_path].mode # "RGBA"

\* C6: the file optimize_png has saved when it returns has the width and the
\* height of the input file, whatever its mode.
C6_OptimizeKeepsDimensions ==
    (entry = "optimize_png" /\ pc = "returned") =>
        /\ Saved(fs[output_path])
        /\ fs[output_path].w = fs0[input_path].w
        /\ fs[output_path].h = fs0[input_path].h

\* C6's case: optimize_png has returned for a large palette image that is
\* not square.
C6_Witness ==
    /\ entry = "optimize_png"
    /\ pc = "returned"
    /\ fs0[input_path].mode = "P"
    /\ fs0[input_path].w = MaxDim
    /\ fs0[input_path].h = 1

\* C7: every file a run of the script has saved is an RGBA image, whatever
\* the mode of public/logo.png.
C7_WrittenFilesAreRGBA ==
    entry = "main" =>
        \A p \in Range(written) : fs[p].kind = "png" /\ fs[p].mode = "RGBA"

\* C7's case: a run on an input that is not RGBA has saved all five files.
C7_Witness ==
    /\ entry = "main"
    /\ Len(written) = 5
    /\ fs0[input_file].mode = "RGB"

\* C8: when a run of the script exits with status zero after an earlier run
\* did, the filesystem is, path for path and content for content, the one
\* the earlier run left.
C8_SecondRunChangesNothing ==
    (entry = "main" /\ pc = "exited" /\ exit_code = 0) =>
        \A i \in 1..Len(history) :
            history[i].exit_code = 0 => history[i].fs = fs

\* C8's case: two runs in a row have exited with status zero, the first of
\* them having created the outputs.
C8_Witness ==
    /\ entry = "main"
    /\ pc = "exited"
    /\ exit_code = 0
    /\ Len(history) >= 1
    /\ history[1].exit_code = 0
    /\ ~os_path_exists(history[1].fs, <<"dist", "logo-64.png">>)
    /\ fs0 = fs

\* C9: two calls of optimize_png that return, for the same input file and the
\* same output_path, leave the same file at output_path and return the same
\* size, whatever the quality of each.
C9_QualityChangesNothing ==
    (entry = "optimize_png" /\ pc = "returned") =>
        \A i \in 1..Len(history) :
            (history[i].pc = "returned" /\ history[i].input = fs0[input_path]) =>
                /\ history[i].fs[output_path] = fs[output_path]
                /\ history[i].ret = ret

\* C9's case: two calls with different qualities on the same input file have
\* returned.
C9_Witness ==
    /\ entry = "optimize_png"
    /\ pc = "returned"
    /\ Len(history) >= 1
    /\ history[1].pc = "returned"
    /\ history[1].input = fs0[input_path]
    /\ history[1].quality # quality

\* C10: a run calls save on the five outputs in the fixed order, each at most
\* once and none before the one before it is complete; a save that fails is
\* the run's last and ends it with a non-zero status, as does a failure to
\* decode; the files saved before stay complete and the files after the failed
\* one stay untouched.
C10_FixedOrderFailFast ==
    entry = "main" =>
        /\ IsPrefix(attempted, WriteOrder)
        /\ IsPrefix(written, attempted)
        /\ Len(attempted) <= Len(written) + 1
        /\ Len(written) < Len(attempted) => (pc = "exited" /\ exit_code \notin {0, -1})
        /\ (pc = "exited" /\ written # WriteOrder) => exit_code \notin {0, -1}
        /\ \A k \in 1..Len(WriteOrder) :
              /\ k <= Len(written) => Saved(fs[WriteOrder[k]])
              /\ k > Len(attempted) => fs[WriteOrder[k]] = fs0[WriteOrder[k]]

\* C10's case: the third save of a run has failed, leaving debris, after two
\* saves that succeeded.
C10_Witness ==
    /\ entry = "main"
    /\ Len(written) = 2
    /\ Len(attempted) = 3
    /\ fs[WriteOrder[3]] = Junk
    /\ pc = "exited"
====
